---- MODULE Spec2Model ----
(***************************************************************************)
(* Model of library/sensu_go_check.py (run_module): the Ansible module     *)
(* that reconciles one Sensu Go check against the backend API.  The        *)
(* SensuGo helper class (module_utils/sensu_go) is modelled as the         *)
(* Resource Client of the design description.                              *)
(***************************************************************************)
EXTENDS Integers, Sequences, FiniteSets, TLC

\* ------------------------------------------------------------------ bounds
MaxIntervals == 2

\* ------------------------------------------------------------ value domains
None == "<None>"
Commands == {"echo ok"}
Crons == {"@hourly"}
Intervals == {30 * i : i \in 1..MaxIntervals}
Ttls == {30}

IntAttrs == {"interval", "ttl"}
Attrs == {"command", "cron", "interval", "ttl"}

\* python truthiness of an attribute value (None, '' and 0 are falsy)
Truthy(k, v) == IF k \in IntAttrs THEN v # 0 ELSE v \notin {None, ""}

StrVal == [type |-> "str"]
IntVal == [type |-> "int"]
\* a dict is a set of <<key, value>> items
Dict(items) == [isNone |-> FALSE, items |-> items]
NoDict == [isNone |-> TRUE, items |-> {}]
GoodDict == Dict({<<StrVal, StrVal>>})
Dicts == {Dict({}), GoodDict, Dict({<<IntVal, StrVal>>}), Dict({<<StrVal, IntVal>>})}
NoMetadata == [isNone |-> TRUE, annotations |-> NoDict, labels |-> NoDict]
Metadatas ==
    {NoMetadata} \cup
    {[isNone |-> FALSE, annotations |-> a, labels |-> GoodDict] : a \in Dicts} \cup
    {[isNone |-> FALSE, annotations |-> NoDict, labels |-> l] : l \in Dicts}

\* module.params after the argument spec's defaults were applied
\* (command, cron: no default; interval, ttl: default 0; state: 'present')
Params ==
    [state : {"present", "absent"}, check_mode : BOOLEAN,
     command : Commands \cup {None}, cron : Crons \cup {None},
     interval : Intervals \cup {0}, ttl : Ttls \cup {0},
     metadata : Metadatas]

EmptyDef == [k \in {} |-> 0]

\* SensuGo.create_check_definition: the attributes with the unset/empty
\* ones dropped
create_check_definition(p) ==
    [k \in {a \in Attrs : Truthy(a, p[a])} |-> p[k]]

\* the definitions the backend can hold
Definitions ==
    {create_check_definition(p) :
        p \in [command : Commands \cup {None}, cron : Crons \cup {None},
               interval : Intervals \cup {0}, ttl : Ttls \cup {0}]}

NotFound == [exists |-> FALSE, def |-> EmptyDef]
RemoteStates == {NotFound} \cup {[exists |-> TRUE, def |-> d] : d \in Definitions}

\* ------------------------------------------------------- Resource Client
ErrorStatuses == {500}
\* the status the backend answers to a call
Statuses(op, r) ==
    ErrorStatuses \cup
    (CASE op = "get" -> {IF r.exists THEN 200 ELSE 404}
       [] op = "post" -> {201}
       [] op = "put" -> {200}
       [] op = "delete" -> {204})

ClientFatal_ignore(op, status) == FALSE

\* an unexpected status is a fatal error of the client (fail_json)
ClientFatal(op, status) ==
    IF op = "get" THEN status \notin {200, 404}
    ELSE status \notin {200, 201, 204}

Writes == {"post", "put", "delete"}

\* the effect of a write call on the backend
Apply(op, r, body, status) ==
    IF status \in ErrorStatuses THEN r
    ELSE IF op = "delete" THEN NotFound
    ELSE [exists |-> TRUE, def |-> body]

\* ------------------------------------------------------------ run_module
\* mutually_exclusive = [['interval', 'cron']]
mutually_exclusive(p) == Truthy("interval", p.interval) /\ Truthy("cron", p.cron)

\* required_if: state present needs command, and one of interval / cron
required_if(p) ==
    p.state = "present" /\
    (~Truthy("command", p.command)
       \/ (~Truthy("interval", p.interval) /\ ~Truthy("cron", p.cron)))

isinstance_str(x) == x.type = "str"

MetadataError_noLabelValues(m) ==
    IF m.isNone THEN ""
    ELSE IF ~m.annotations.isNone /\ \E it \in m.annotations.items : ~isinstance_str(it[1])
         THEN "Metadata annotations key is not a string"
    ELSE IF ~m.annotations.isNone /\ \E it \in m.annotations.items : ~isinstance_str(it[2])
         THEN "Metadata annotations value is not a string"
    ELSE IF ~m.labels.isNone /\ \E it \in m.labels.items : ~isinstance_str(it[1])
         THEN "Metadata labels key is not a string"
    ELSE ""

\* Sensu Check specific validation: the message of the first fail_json, or ""
MetadataError(m) ==
    IF m.isNone THEN ""
    ELSE IF ~m.annotations.isNone /\ \E it \in m.annotations.items : ~isinstance_str(it[1])
         THEN "Metadata annotations key is not a string"
    ELSE IF ~m.annotations.isNone /\ \E it \in m.annotations.items : ~isinstance_str(it[2])
         THEN "Metadata annotations value is not a string"
    ELSE IF ~m.labels.isNone /\ \E it \in m.labels.items : ~isinstance_str(it[1])
         THEN "Metadata labels key is not a string"
    ELSE IF ~m.labels.isNone /\ \E it \in m.labels.items : ~isinstance_str(it[2])
         THEN "Metadata labels value is not a string"
    ELSE ""

\* check_def_with_values = {k for k, v in check_def.items() if v}
check_def_with_values(cd) == {k \in DOMAIN cd : Truthy(k, cd[k])}

keys_to_remove_none(cd, resp) == {}

\* keys_to_remove = {k for k in check_def_with_values if k not in response}
keys_to_remove(cd, resp) == {k \in check_def_with_values(cd) : k \notin DOMAIN resp}

\* for key in keys_to_remove: del check_def[key]
DelKeys(cd, ks) == [k \in DOMAIN cd \ ks |-> cd[k]]

NeedsUpdate_always(resp, cd) == TRUE

\* if response != check_def
NeedsUpdate(resp, cd) == resp # cd

NoDiff == [before |-> EmptyDef, after |-> EmptyDef]
result0 ==
    [changed |-> FALSE, message |-> "", hasCheckDef |-> FALSE,
     check_definition |-> EmptyDef, hasDiff |-> FALSE, diff |-> NoDiff]

WithDiff_forgotten(res, resp, cd) == res

\* result['diff'] = {'before': response, 'after': check_def}
WithDiff(res, resp, cd) ==
    [res EXCEPT !.hasDiff = TRUE, !.diff = [before |-> resp, after |-> cd]]

Changed_dryRunSilent(res, msg, check_mode) ==
    [res EXCEPT !.message = msg, !.changed = ~check_mode]

\* result['message'] = ...; result['changed'] = True
Changed(res, msg, check_mode) == [res EXCEPT !.message = msg, !.changed = TRUE]

NoPrev ==
    [valid |-> FALSE, params |-> CHOOSE p \in Params : TRUE, existed |-> FALSE,
     response |-> EmptyDef, changed |-> FALSE, check_def |-> EmptyDef]

VARIABLES
    remote,      \* the check as the backend holds it
    pc,          \* position of the invocation in run_module
    params,      \* module.params and module.check_mode
    response,    \* body returned by get_resource
    status,      \* info['status'] of get_resource
    check_def,   \* the dict built by create_check_definition
    result,      \* the result dict handed to exit_json
    calls,       \* Resource Client calls issued by this invocation
    failure,     \* message class of fail_json, "" if none
    check_def0,  \* history: check_def as create_check_definition returned it
    badStatus,   \* history: a client call was answered an unexpected status
    prev         \* history: the previous invocation that exited successfully

vars == <<remote, pc, params, response, status, check_def, result, calls,
          failure, check_def0, badStatus, prev>>

Init ==
    /\ remote \in RemoteStates
    /\ pc = "idle"
    /\ params = NoPrev.params
    /\ response = EmptyDef
    /\ status = 0
    /\ check_def = EmptyDef
    /\ result = result0
    /\ calls = << >>
    /\ failure = ""
    /\ check_def0 = EmptyDef
    /\ badStatus = FALSE
    /\ prev = NoPrev

Fail(msg) == pc' = "failed" /\ failure' = msg

\* module = SensuGo(argument_spec, ..., required_if, mutually_exclusive)
SensuGoInit ==
    /\ pc = "idle"
    /\ \E p \in Params :
        /\ params' = p
        /\ IF mutually_exclusive(p) THEN Fail("parameters are mutually exclusive")
           ELSE IF required_if(p) THEN Fail("missing required arguments")
           ELSE pc' = "constructed" /\ failure' = ""
    /\ result' = result0
    /\ response' = EmptyDef /\ status' = 0
    /\ check_def' = EmptyDef /\ check_def0' = EmptyDef
    /\ calls' = << >> /\ badStatus' = FALSE
    /\ UNCHANGED <<remote, prev>>

\* the Sensu Check specific validation of metadata
ValidateMetadata ==
    /\ pc = "constructed"
    /\ IF MetadataError(params.metadata) # ""
       THEN Fail(MetadataError(params.metadata))
       ELSE pc' = "validated" /\ UNCHANGED failure
    /\ UNCHANGED <<remote, params, response, status, check_def, result, calls,
                   check_def0, badStatus, prev>>

\* module.auth()
Auth ==
    /\ pc = "validated"
    /\ calls' = Append(calls, "auth")
    /\ \E ok \in BOOLEAN :
        IF ok THEN pc' = "authed" /\ UNCHANGED failure
        ELSE Fail("authentication failed")
    /\ UNCHANGED <<remote, params, response, status, check_def, result,
                   check_def0, badStatus, prev>>

\* response, info = module.get_resource(); for state present also
\* check_def = module.create_check_definition(); result['check_definition'] = check_def
GetResource ==
    /\ pc = "authed"
    /\ calls' = Append(calls, "get")
    /\ \E s \in Statuses("get", remote) :
        /\ status' = s
        /\ badStatus' = (s \notin {200, 404})
        /\ response' = IF s = 200 THEN remote.def ELSE EmptyDef
        /\ IF ClientFatal("get", s)
           THEN /\ Fail("unexpected status")
                /\ UNCHANGED <<check_def, check_def0, result>>
           ELSE /\ pc' = "fetched" /\ UNCHANGED failure
                /\ IF params.state = "present"
                   THEN /\ check_def' = create_check_definition(params)
                        /\ check_def0' = create_check_definition(params)
                        /\ result' = [result EXCEPT !.hasCheckDef = TRUE,
                                        !.check_definition = create_check_definition(params)]
                   ELSE UNCHANGED <<check_def, check_def0, result>>
    /\ UNCHANGED <<remote, params, prev>>

\* a write call of the client: the backend answers, the client fails on an
\* unexpected status, otherwise run_module goes on with res
Write(op, body, res) ==
    /\ calls' = Append(calls, op)
    /\ \E s \in Statuses(op, remote) :
        /\ remote' = Apply(op, remote, body, s)
        /\ badStatus' = (s \in ErrorStatuses)
        /\ IF ClientFatal(op, s)
           THEN Fail("unexpected status") /\ UNCHANGED result
           ELSE pc' = "decided" /\ result' = res /\ UNCHANGED failure

NoWrite(res) ==
    /\ pc' = "decided" /\ result' = res
    /\ UNCHANGED <<remote, calls, failure, badStatus>>

\* state present, status 404
PresentNotFound ==
    /\ pc = "fetched" /\ params.state = "present" /\ status = 404
    /\ IF params.check_mode
       THEN NoWrite(Changed(result, "Would have created new Sensu Go check", TRUE))
       ELSE Write("post", check_def,
                  Changed(result, "Created new Sensu Go check", FALSE))
    /\ UNCHANGED <<params, response, status, check_def, check_def0, prev>>

\* state present, status 200 (the response the put returns is bound to the
\* name response and never read; the diff keeps the fetched one)
PresentFound ==
    /\ pc = "fetched" /\ params.state = "present" /\ status = 200
    /\ LET cd == DelKeys(check_def, keys_to_remove(check_def, response))
           \* result['check_definition'] is the same dict object as check_def
           res == [result EXCEPT !.check_definition = cd]
       IN /\ check_def' = cd
          /\ IF NeedsUpdate(response, cd)
             THEN IF params.check_mode
                  THEN NoWrite(Changed(WithDiff(res, response, cd),
                                       "Would have updated Sensu Go check", TRUE))
                  ELSE Write("put", cd,
                             Changed(WithDiff(res, response, cd),
                                     "Updated existing Sensu Go check", FALSE))
             ELSE NoWrite([res EXCEPT !.message =
                    "Sensu Go check already exists and doesn't need to be updated"])
    /\ UNCHANGED <<params, response, status, check_def0, prev>>

\* state absent, status 404
AbsentNotFound ==
    /\ pc = "fetched" /\ params.state = "absent" /\ status = 404
    /\ NoWrite([result EXCEPT !.message = "Sensu Go check does not exist"])
    /\ UNCHANGED <<params, response, status, check_def, check_def0, prev>>

\* state absent, status 200
AbsentFound ==
    /\ pc = "fetched" /\ params.state = "absent" /\ status = 200
    /\ IF params.check_mode
       THEN NoWrite(Changed(result, "Would have deleted Sensu Go check", TRUE))
       ELSE Write("delete", EmptyDef, Changed(result, "Deleted Sensu Go check", FALSE))
    /\ UNCHANGED <<params, response, status, check_def, check_def0, prev>>

\* module.exit_json(**result); also reached when no branch matched the status
ExitJson ==
    /\ \/ pc = "decided"
       \/ pc = "fetched" /\ status \notin {200, 404}
    /\ pc' = "exited"
    /\ UNCHANGED <<remote, params, response, status, check_def, result, calls,
                   failure, check_def0, badStatus, prev>>

\* the process ends; the playbook may run the module again
NextInvocation ==
    /\ pc \in {"exited", "failed"}
    /\ pc' = "idle"
    /\ prev' = IF pc = "exited"
               THEN [valid |-> TRUE,
                     params |-> [params EXCEPT !.metadata = NoMetadata],
                     existed |-> status = 200, response |-> response,
                     changed |-> result.changed, check_def |-> check_def0]
               ELSE prev
    /\ params' = NoPrev.params
    /\ response' = EmptyDef /\ status' = 0
    /\ check_def' = EmptyDef /\ check_def0' = EmptyDef
    /\ result' = result0
    /\ calls' = << >> /\ failure' = "" /\ badStatus' = FALSE
    /\ UNCHANGED remote

Invocation ==
    \/ SensuGoInit
    \/ ValidateMetadata
    \/ Auth
    \/ GetResource
    \/ PresentNotFound
    \/ PresentFound
    \/ AbsentNotFound
    \/ AbsentFound
    \/ ExitJson

Next == Invocation

\* one invocation against any backend state
Spec == Init /\ [][Next]_vars

NextSeq == Invocation \/ NextInvocation

\* invocations one after the other, no other writer
SpecSeq == Init /\ [][NextSeq]_vars

\* --------------------------------------------------------------- claims
Restrict(d, ks) == [k \in DOMAIN d \cap ks |-> d[k]]
NoWriteIssued == \A i \in 1..Len(calls) : calls[i] \notin Writes
SameInputsAsPrev ==
    /\ prev.valid
    /\ prev.params = [params EXCEPT !.metadata = NoMetadata,
                                    !.check_mode = prev.params.check_mode]
    /\ prev.existed = (status = 200)
    /\ prev.response = response

\* C1: after a non-dry-run reconcile(present, D) that created or replaced the
\* resource and exited, the remote definition equals D as declared.
C1_Converged ==
    (pc = "exited" /\ params.state = "present" /\ ~params.check_mode
        /\ result.changed)
    => remote = [exists |-> TRUE, def |-> check_def0]

\* C2: a non-dry-run reconcile(present, D) on a resource that does not exist
\* reports changed=true, and the reconcile(present, D) that follows it with
\* the same D reports changed=false and issues no write call.
C2_Idempotent ==
    /\ (pc = "exited" /\ params.state = "present" /\ ~params.check_mode
          /\ status = 404) => result.changed
    /\ (pc = "exited" /\ params.state = "present"
          /\ prev.valid /\ prev.params.state = "present"
          /\ ~prev.params.check_mode /\ ~prev.existed
          /\ prev.check_def = check_def0)
       => (~result.changed /\ NoWriteIssued)

C2_Witness ==
    /\ pc = "exited" /\ params.state = "present" /\ ~params.check_mode
    /\ prev.valid /\ prev.params.state = "present"
    /\ ~prev.params.check_mode /\ ~prev.existed /\ prev.changed
    /\ prev.check_def = check_def0
    /\ Cardinality(DOMAIN check_def0) = 3
    /\ ~result.changed

\* C3: a dry-run invocation issues no create, replace or delete call, and
\* the changed flag it reports is the one the non-dry-run invocation with
\* the same intent and definition reports from the same remote state.
C3_DryRun ==
    /\ (pc # "idle" /\ params.check_mode)
       => NoWriteIssued
    /\ (pc = "exited" /\ SameInputsAsPrev
          /\ prev.params.check_mode # params.check_mode)
       => result.changed = prev.changed

C3_Witness ==
    /\ pc = "exited" /\ ~params.check_mode /\ SameInputsAsPrev
    /\ prev.params.check_mode /\ prev.changed
    /\ \E i \in 1..Len(calls) : calls[i] = "put"

C5_DiffIff ==
    pc = "exited" =>
        (result.hasDiff <=>
            (result.changed /\ params.state = "present" /\ status = 200))

C5_Witness == pc = "exited" /\ result.hasDiff /\ result.changed

\* C6: the emitted diff holds only the attributes whose values changed:
\* before their remote values, after their desired values.
C6_DiffOnlyChanged ==
    (pc = "exited" /\ result.hasDiff) =>
        LET changedKeys ==
              {k \in DOMAIN response \cup DOMAIN check_def0 :
                 \/ k \notin DOMAIN response
                 \/ k \notin DOMAIN check_def0
                 \/ response[k] # check_def0[k]}
        IN /\ result.diff.before = Restrict(response, changedKeys)
           /\ result.diff.after = Restrict(check_def0, changedKeys)

\* C7: every invocation that exits successfully returns changed, message
\* and check_definition.
C7_ResultFields == pc = "exited" => result.hasCheckDef

\* C8: an invocation whose input has both cron and interval set, or a
\* metadata annotation or label key or value that is not a string, ends in
\* a validation error without any call to the Resource Client.
InvalidInput(p) ==
    \/ p.cron # None /\ p.interval # 0
    \/ /\ ~p.metadata.isNone
       /\ \E d \in {p.metadata.annotations, p.metadata.labels} :
             \E it \in d.items : it[1] # StrVal \/ it[2] # StrVal

C8_ValidationBeforeClient ==
    (pc # "idle" /\ InvalidInput(params))
    => (calls = << >> /\ pc \in {"constructed", "failed"})

C8_Witness ==
    /\ pc = "failed" /\ InvalidInput(params) /\ params.state = "present"
    /\ failure = "Metadata labels value is not a string"

\* C9 as stated: with intent present and the resource existing, only the
\* keys that are truthy in the Desired Definition and exist in the Remote
\* Definition decide whether the outcome is 'changed'.
C9_OnlyComparedKeys ==
    (pc = "exited" /\ params.state = "present" /\ status = 200
        /\ \A k \in DOMAIN check_def0 \cap DOMAIN response :
              Truthy(k, check_def0[k]) => check_def0[k] = response[k])
    => ~result.changed

\* C9 amended: the truthy keys of the Desired Definition that the Remote
\* Definition lacks never cause 'changed'; what is left is compared with
\* the whole Remote Definition, so the outcome is 'changed' exactly when a
\* key of the Remote Definition is missing from the Desired Definition or
\* differs there, or the Remote Definition lacks a falsy desired key.
C9_ComparedProjection ==
    (pc = "exited" /\ params.state = "present" /\ status = 200)
    => (result.changed <=>
          \/ \E k \in DOMAIN response :
                k \notin DOMAIN check_def0 \/ check_def0[k] # response[k]
          \/ \E k \in DOMAIN check_def0 \ DOMAIN response :
                ~Truthy(k, check_def0[k]))

C9_Witness ==
    /\ pc = "exited" /\ params.state = "present" /\ status = 200
    /\ ~result.changed
    /\ DOMAIN check_def0 \ DOMAIN response # {}
    /\ DOMAIN response # {}

\* C10: from its construction until the invocation exits the Desired
\* Definition keeps its keys and values, and the check_definition of the
\* result is the definition as first constructed.
C10_DefinitionImmutable ==
    result.hasCheckDef =>
        (check_def = check_def0 /\ result.check_definition = check_def0)

====
